---------------------------- MODULE Spec2Model ----------------------------
(***************************************************************************)
(* CrashSense backend: the SystemMonitor of src/backend/core/collector.py. *)
(* One SystemMonitor instance, the polling threads its start() creates,    *)
(* and caller threads that invoke start(), stop(), get_latest_metrics()    *)
(* and get_history().  Every step is one Python statement (threads switch  *)
(* between statements); a lock-protected section is entered in one step    *)
(* and left in the next.                                                   *)
(***************************************************************************)
EXTENDS Integers, Sequences, FiniteSets, TLC

\* ------------------------------------------------------------- bounds
\* Most normalize_metrics calls made on one DataScaler.
MaxCalls == 3
\* Most create_app() calls made in one service process.
MaxApps == 2
\* Longest log line (in pieces) passed to tokenize_log.
MaxLineLen == 3
\* Largest vocab_size a LogTokenizer is built with (0..MaxVocab).
MaxVocab == 4
\* Longest log_paths list a LogMonitor is built with.
MaxLogPaths == 2
\* Most modification events delivered to one LogMonitor.
MaxEvents == 2
\* Largest history_size a sampler is built with (0..MaxCap).
MaxCap == 2
\* Number of Thread objects start() may create in one run.
MaxThreads == 2
\* Number of time.time() readings (= sampling passes begun) in one run.
MaxTicks == 2

\* The caller threads (application threads using the sampler).
Callers == {"c1", "c2"}
\* The caller that owns the sampler's lifecycle in SpecOwner.
Owner == "c1"
Threads == 1..MaxThreads

\* self.thread = None (no Thread object yet); Thread objects are 1..MaxThreads.
NoThread == 0

VARIABLES
    history_size,      \* self.history_size
    metrics_history,   \* self.metrics_history (deque with maxlen)
    running,           \* self.running
    thread,            \* self.thread: NoThread or a Thread object
    lock,              \* self.lock: TRUE while some thread holds it
    tstate,            \* Thread object -> where its _poll_loop stands
    metrics,           \* Thread object -> the local `metrics` of _poll_loop
    clock,             \* the number of time.time() readings handed out
    pc,                \* caller -> the statement it is at
    jt,                \* caller -> the Thread object its join() waits for
    held,              \* the object the latest get_history() call returned
    appended,          \* history: every sample whose append has completed
    phase,             \* history: "fresh", "started" or "stopped" (see below)
    clean,             \* history: callers inside a stop() no start() overlapped
    svc,               \* the service process of app.py: how it runs, where it is
    logmon,            \* a LogMonitor, the file system under it, its events
    tok,               \* a LogTokenizer: vocab_size, token_map, next_token_id
    fn_in,             \* the argument of a function applied on its own
    fn_out             \* what that function returned (<<>> before the call)

vars == <<history_size, metrics_history, running, thread, lock, tstate,
          metrics, clock, pc, jt, held, appended, phase, clean,
          svc, logmon, tok, fn_in, fn_out>>

\* ------------------------------------------------------------ psutil
\* What psutil hands back in one tick.  A counter family the platform does
\* not have comes back as None (ok = FALSE here).
Psutil == [cpu_percent |-> 30, percent |-> 40, used |-> 4]
DiskCounters == [ok |-> TRUE, read_bytes |-> 5, write_bytes |-> 6]
NetCounters == [ok |-> TRUE, bytes_sent |-> 7, bytes_recv |-> 8]
NoCounters == [ok |-> FALSE]
\* The reading of the platform the sampler runs on: both families present.
PlatformReading == [disk_io |-> DiskCounters, net_io |-> NetCounters]
\* Every reading one tick can get: each family there or None.
OsReadings == [disk_io : {NoCounters, DiskCounters},
               net_io  : {NoCounters, NetCounters}]

\* The same with the counters at any of a few values, zero included.
CounterReadings ==
    [disk_io : {NoCounters} \cup [ok : {TRUE}, read_bytes : {0, 5}, write_bytes : {0, 6}],
     net_io  : {NoCounters} \cup [ok : {TRUE}, bytes_sent : {0, 7}, bytes_recv : {0, 8}]]

\* The keys of the dict _collect_metrics builds.
SampleFields == {"timestamp", "cpu_percent", "memory_percent", "memory_used",
                 "disk_read_bytes", "disk_write_bytes",
                 "net_bytes_sent", "net_bytes_recv"}

\* Mutant of _collect_metrics: one missing family zeroes all four counters.
_collect_metrics_AllOrNothing(now, os) ==
    LET both == os.disk_io.ok /\ os.net_io.ok IN
    [timestamp        |-> now,
     cpu_percent      |-> Psutil.cpu_percent,
     memory_percent   |-> Psutil.percent,
     memory_used      |-> Psutil.used,
     disk_read_bytes  |-> IF both THEN os.disk_io.read_bytes ELSE 0,
     disk_write_bytes |-> IF both THEN os.disk_io.write_bytes ELSE 0,
     net_bytes_sent   |-> IF both THEN os.net_io.bytes_sent ELSE 0,
     net_bytes_recv   |-> IF both THEN os.net_io.bytes_recv ELSE 0]

\* Mutant of _collect_metrics: a missing family leaves its keys out.
_collect_metrics_OmitMissing(now, os) ==
    LET full == [timestamp        |-> now,
                 cpu_percent      |-> Psutil.cpu_percent,
                 memory_percent   |-> Psutil.percent,
                 memory_used      |-> Psutil.used,
                 disk_read_bytes  |-> IF os.disk_io.ok THEN os.disk_io.read_bytes ELSE 0,
                 disk_write_bytes |-> IF os.disk_io.ok THEN os.disk_io.write_bytes ELSE 0,
                 net_bytes_sent   |-> IF os.net_io.ok THEN os.net_io.bytes_sent ELSE 0,
                 net_bytes_recv   |-> IF os.net_io.ok THEN os.net_io.bytes_recv ELSE 0]
        gone == (IF os.disk_io.ok THEN {} ELSE {"disk_read_bytes", "disk_write_bytes"})
                \cup (IF os.net_io.ok THEN {} ELSE {"net_bytes_sent", "net_bytes_recv"})
    IN  [k \in SampleFields \ gone |-> full[k]]

\* _collect_metrics: the dict built from one reading taken at time `now`.
_collect_metrics(now, os) ==
    [timestamp        |-> now,
     cpu_percent      |-> Psutil.cpu_percent,
     memory_percent   |-> Psutil.percent,
     memory_used      |-> Psutil.used,
     disk_read_bytes  |-> IF os.disk_io.ok THEN os.disk_io.read_bytes ELSE 0,
     disk_write_bytes |-> IF os.disk_io.ok THEN os.disk_io.write_bytes ELSE 0,
     net_bytes_sent   |-> IF os.net_io.ok THEN os.net_io.bytes_sent ELSE 0,
     net_bytes_recv   |-> IF os.net_io.ok THEN os.net_io.bytes_recv ELSE 0]

\* ------------------------------------------------------ preprocessor
\* A Python variable that holds None or a dict is the empty sequence or a
\* one-element sequence; a dict is a function on its keys.
EmptyDict == [k \in {} |-> 0]
\* None as the value under a key: an integer no reading takes.
PyNone == -1

\* a / b on numbers, kept exact as a fraction.
TrueDiv(a, b) == [num |-> a, den |-> b]
\* Mutant of np_log1p: the logarithm of x itself.
np_log(x) == [ln |-> x]
\* np.log1p(x), kept exact as the natural logarithm of 1 + x.
np_log1p(x) == [ln |-> 1 + x]

\* Mutant of normalize_metrics: percentages are clamped to 100 first.
normalize_metrics_Clamped(opt) ==
    IF opt = <<>> \/ DOMAIN opt[1] = {} THEN EmptyDict
    ELSE LET m == opt[1]
             get(k, default) == IF k \in DOMAIN m THEN m[k] ELSE default
             clamp(v) == IF v > 100 THEN 100 ELSE v
         IN  [cpu_percent      |-> TrueDiv(clamp(get("cpu_percent", 0)), 100),
              memory_percent   |-> TrueDiv(clamp(get("memory_percent", 0)), 100),
              disk_read_bytes  |-> np_log1p(get("disk_read_bytes", 0)),
              disk_write_bytes |-> np_log1p(get("disk_write_bytes", 0)),
              net_bytes_recv   |-> np_log1p(get("net_bytes_recv", 0)),
              net_bytes_sent   |-> np_log1p(get("net_bytes_sent", 0)),
              timestamp        |-> get("timestamp", PyNone)]

\* Mutant of normalize_metrics: no early return, an empty input is
\* normalized like any other.
normalize_metrics_NoEarlyReturn(opt) ==
    LET m == IF opt = <<>> THEN EmptyDict ELSE opt[1]
        get(k, default) == IF k \in DOMAIN m THEN m[k] ELSE default
    IN  [cpu_percent      |-> TrueDiv(get("cpu_percent", 0), 100),
         memory_percent   |-> TrueDiv(get("memory_percent", 0), 100),
         disk_read_bytes  |-> np_log1p(get("disk_read_bytes", 0)),
         disk_write_bytes |-> np_log1p(get("disk_write_bytes", 0)),
         net_bytes_recv   |-> np_log1p(get("net_bytes_recv", 0)),
         net_bytes_sent   |-> np_log1p(get("net_bytes_sent", 0)),
         timestamp        |-> get("timestamp", PyNone)]

\* Mutant of normalize_metrics: the output starts as a copy of the input.
normalize_metrics_CopyInput(opt) ==
    IF opt = <<>> \/ DOMAIN opt[1] = {} THEN EmptyDict
    ELSE LET m == opt[1]
             get(k, default) == IF k \in DOMAIN m THEN m[k] ELSE default
             out == [cpu_percent      |-> TrueDiv(get("cpu_percent", 0), 100),
                     memory_percent   |-> TrueDiv(get("memory_percent", 0), 100),
                     disk_read_bytes  |-> np_log1p(get("disk_read_bytes", 0)),
                     disk_write_bytes |-> np_log1p(get("disk_write_bytes", 0)),
                     net_bytes_recv   |-> np_log1p(get("net_bytes_recv", 0)),
                     net_bytes_sent   |-> np_log1p(get("net_bytes_sent", 0)),
                     timestamp        |-> get("timestamp", PyNone)]
         IN  [k \in DOMAIN m \cup DOMAIN out |->
                 IF k \in DOMAIN out THEN out[k] ELSE m[k]]

\* DataScaler.normalize_metrics
normalize_metrics(opt) ==
    IF opt = <<>> \/ DOMAIN opt[1] = {} THEN EmptyDict
    ELSE LET m == opt[1]
             get(k, default) == IF k \in DOMAIN m THEN m[k] ELSE default
         IN  [cpu_percent      |-> TrueDiv(get("cpu_percent", 0), 100),
              memory_percent   |-> TrueDiv(get("memory_percent", 0), 100),
              disk_read_bytes  |-> np_log1p(get("disk_read_bytes", 0)),
              disk_write_bytes |-> np_log1p(get("disk_write_bytes", 0)),
              net_bytes_recv   |-> np_log1p(get("net_bytes_recv", 0)),
              net_bytes_sent   |-> np_log1p(get("net_bytes_sent", 0)),
              timestamp        |-> get("timestamp", PyNone)]

\* --------------------------------------------------------------- app
\* What a request can carry under `normalized` ("" : nothing).
QueryValues == {"", "true", "TRUE", "True", "false", "1"}
\* str.lower() on those
lower(q) == IF q \in {"TRUE", "True"} THEN "true" ELSE q
\* request.args.get('normalized', 'false')
args_get(q) == IF q = "" THEN "false" ELSE q

\* Mutant of get_current_metrics: the query string is not looked at.
get_current_metrics_NeverNormalized(latest, q) ==
    IF latest = <<>> THEN EmptyDict ELSE latest[1]

\* Mutant of get_current_metrics: every answer is normalized.
get_current_metrics_AlwaysNormalized(latest, q) ==
    IF latest = <<>> THEN EmptyDict ELSE normalize_metrics(latest)

\* get_current_metrics, app.py lines 108-117: the JSON object answered
\* when get_latest_metrics() returned `latest`.
get_current_metrics(latest, q) ==
    IF latest = <<>> \/ DOMAIN latest[1] = {} THEN EmptyDict
    ELSE IF lower(args_get(q)) = "true" THEN normalize_metrics(latest)
    ELSE latest[1]

\* ------------------------------------------------------------- deque
\* Mutant of DequeAppend: a plain list, nothing is ever dropped.
DequeAppend_NoEvict(d, x, n) == Append(d, x)

\* Mutant of DequeAppend: maxlen 0 is taken for maxlen 1.
DequeAppend_KeepOne(d, x, n) ==
    IF Len(d) >= n /\ Len(d) > 0 THEN Append(Tail(d), x)
    ELSE Append(d, x)

\* deque(maxlen=n).append(x): append on the right, and when the deque is
\* already full drop one element on the left (n = 0: nothing is kept).
DequeAppend(d, x, n) ==
    IF n = 0 THEN <<>>
    ELSE IF Len(d) >= n THEN Append(Tail(d), x)
    ELSE Append(d, x)

\* Mutant of LatestOf: index 0 in place of index -1.
LatestOf_First(d) == IF Len(d) > 0 THEN <<d[1]>> ELSE <<>>

\* get_latest_metrics under the lock: list(self.metrics_history)[-1], or
\* None (the empty sequence here) when the deque is empty.
LatestOf(d) == IF Len(d) > 0 THEN <<d[Len(d)]>> ELSE <<>>

\* Mutant of HistoryOf: the deque itself is handed out, not a copy.
HistoryOf_Alias(d) == [kind |-> "deque", val |-> d]

\* Mutant of HistoryOf: the copy is newest first.
HistoryOf_Reversed(d) ==
    [kind |-> "list", val |-> [i \in 1..Len(d) |-> d[Len(d) + 1 - i]]]

\* get_history under the lock: list(self.metrics_history), a new list
\* object holding the deque's elements at that moment.
HistoryOf(d) == [kind |-> "list", val |-> d]

\* No get_history() call has returned yet.
NothingHeld == [kind |-> "none", val |-> <<>>]

\* What the holder of a returned sequence sees when it reads it later: a
\* list keeps its own elements, a reference to the deque shows the deque.
Deref(r) == IF r.kind = "deque" THEN metrics_history ELSE r.val

\* No service process around the sampler, no function applied on its own.
NoService == [mode |-> "none", at |-> "none"]
NoCall == <<>>
\* No LogMonitor has been built.
NoLogMonitor == [state |-> "none"]
\* No LogTokenizer has been built.
NoTokenizer == [vocab_size |-> 0]

\* -------------------------------------------------------------- Init
\* SystemMonitor.__init__
InitMonitor ==
    /\ history_size \in 0..MaxCap
    /\ metrics_history = <<>>
    /\ running = FALSE
    /\ thread = NoThread
    /\ lock = FALSE
    /\ tstate = [t \in Threads |-> "unborn"]
    /\ metrics = [t \in Threads |-> <<>>]
    /\ clock = 0
    /\ pc = [c \in Callers |-> "idle"]
    /\ jt = [c \in Callers |-> NoThread]
    /\ held = NothingHeld
    /\ appended = <<>>
    /\ phase = "fresh"
    /\ clean = {}

Init ==
    /\ InitMonitor
    /\ svc = NoService
    /\ logmon = NoLogMonitor
    /\ tok = NoTokenizer
    /\ fn_in = NoCall
    /\ fn_out = NoCall

\* Thread.is_alive(): started and its run() has not ended.
Alive(t) == tstate[t] \in {"check", "collect", "acquire", "append", "sleep"}
Unborn == {t \in Threads : tstate[t] = "unborn"}
\* The callers inside start(), past its test of self.running.
InStart == {c \in Callers : pc[c] \in {"s77", "s78", "s79"}}

\* History variables.  phase is "fresh" until the first start() call that
\* passes its test, "started" from any such call on, and "stopped" from the
\* return of a stop() call that no start() call overlapped (a member of
\* clean) until the next start() call that passes its test.
\* No method of SystemMonitor assigns history_size; the service process
\* and the functions applied on their own are outside it.
config == <<history_size, svc, logmon, tok, fn_in, fn_out>>
\* Everything a SystemMonitor and its callers hold.
monitor == <<history_size, metrics_history, running, thread, lock, tstate,
             metrics, clock, pc, jt, held, appended, phase, clean>>
buffer == <<config, metrics_history, appended>>
flags == <<running, thread>>
poll == <<tstate, metrics, clock>>
ghost == <<phase, clean>>

\* ------------------------------------------------------------ start()
\* Mutant of StartCheck: start() without its test of self.running.
StartCheck_NoTest(c) ==
    /\ pc[c] = "idle"
    /\ Cardinality(Unborn) > Cardinality(InStart \ {d \in Callers : pc[d] = "s79"})
    /\ pc' = [pc EXCEPT ![c] = "s77"]
    /\ phase' = "started"
    /\ clean' = {}
    /\ UNCHANGED <<buffer, flags, lock, poll, jt, held>>

\* line 76: if not self.running.  (A call is let in only while a Thread
\* object is left for it to create.)
StartCheck(c) ==
    /\ pc[c] = "idle"
    /\ Cardinality(Unborn) > Cardinality(InStart \ {d \in Callers : pc[d] = "s79"})
    /\ IF running
       THEN UNCHANGED <<pc, ghost>>
       ELSE /\ pc' = [pc EXCEPT ![c] = "s77"]
            /\ phase' = "started"
            /\ clean' = {}
    /\ UNCHANGED <<buffer, flags, lock, poll, jt, held>>

\* Mutant of StartSetRunning: start() leaves self.running as it was.
StartSetRunning_Skip(c) ==
    /\ pc[c] = "s77"
    /\ pc' = [pc EXCEPT ![c] = "s78"]
    /\ UNCHANGED <<buffer, flags, lock, poll, jt, held, ghost>>

\* line 77: self.running = True
StartSetRunning(c) ==
    /\ pc[c] = "s77"
    /\ running' = TRUE
    /\ pc' = [pc EXCEPT ![c] = "s78"]
    /\ UNCHANGED <<buffer, thread, lock, poll, jt, held, ghost>>

\* line 78: self.thread = threading.Thread(target=self._poll_loop, daemon=True)
StartNewThread(c) ==
    /\ pc[c] = "s78"
    /\ Unborn # {}
    /\ LET t == CHOOSE u \in Unborn : \A v \in Unborn : u <= v
       IN /\ tstate' = [tstate EXCEPT ![t] = "new"]
          /\ thread' = t
    /\ pc' = [pc EXCEPT ![c] = "s79"]
    /\ UNCHANGED <<buffer, running, lock, metrics, clock, jt, held, ghost>>

\* line 79: self.thread.start().  Thread.start() raises RuntimeError when
\* the Thread object has been started before; either way the call ends.
StartThreadStart(c) ==
    /\ pc[c] = "s79"
    /\ tstate' = IF tstate[thread] = "new"
                 THEN [tstate EXCEPT ![thread] = "check"]
                 ELSE tstate
    /\ pc' = [pc EXCEPT ![c] = "idle"]
    /\ UNCHANGED <<buffer, flags, lock, metrics, clock, jt, held, ghost>>

\* ------------------------------------------------------------- stop()
\* Mutant of StopClearRunning: stop() also empties the deque.
StopClearRunning_Clears(c) ==
    /\ pc[c] = "idle"
    /\ running' = FALSE
    /\ metrics_history' = <<>>
    /\ pc' = [pc EXCEPT ![c] = "p88"]
    /\ clean' = IF InStart = {} THEN clean \cup {c} ELSE clean
    /\ UNCHANGED <<config, appended, thread, lock, poll, jt, held, phase>>

\* line 87: self.running = False
StopClearRunning(c) ==
    /\ pc[c] = "idle"
    /\ running' = FALSE
    /\ pc' = [pc EXCEPT ![c] = "p88"]
    /\ clean' = IF InStart = {} THEN clean \cup {c} ELSE clean
    /\ UNCHANGED <<buffer, thread, lock, poll, jt, held, phase>>

\* lines 88-89: if self.thread: self.thread.join(), up to the point where
\* join() starts to wait.  With self.thread None the call returns; join()
\* on a Thread object that has not been started raises RuntimeError.
\* (self.thread never goes back to None, so the two loads of self.thread
\* act as one load taken at the second.)
StopJoin(c) ==
    /\ pc[c] = "p88"
    /\ IF thread = NoThread \/ tstate[thread] = "new"
       THEN /\ pc' = [pc EXCEPT ![c] = "idle"]
            /\ jt' = jt
            /\ phase' = IF c \in clean THEN "stopped" ELSE phase
            /\ clean' = clean \ {c}
       ELSE /\ pc' = [pc EXCEPT ![c] = "join"]
            /\ jt' = [jt EXCEPT ![c] = thread]
            /\ UNCHANGED ghost
    /\ UNCHANGED <<buffer, flags, lock, poll, held>>

\* Mutant of JoinReturn: stop() does not wait for the thread to end.
JoinReturn_NoWait(c) ==
    /\ pc[c] = "join"
    /\ pc' = [pc EXCEPT ![c] = "idle"]
    /\ jt' = [jt EXCEPT ![c] = NoThread]
    /\ phase' = IF c \in clean THEN "stopped" ELSE phase
    /\ clean' = clean \ {c}
    /\ UNCHANGED <<buffer, flags, lock, poll, held>>

\* line 89: join() returns once the Thread object it waits for has ended.
JoinReturn(c) ==
    /\ pc[c] = "join"
    /\ ~Alive(jt[c])
    /\ pc' = [pc EXCEPT ![c] = "idle"]
    /\ jt' = [jt EXCEPT ![c] = NoThread]
    /\ phase' = IF c \in clean THEN "stopped" ELSE phase
    /\ clean' = clean \ {c}
    /\ UNCHANGED <<buffer, flags, lock, poll, held>>

\* ------------------------------------------------- get_latest_metrics()
\* line 144: with self.lock
GetLatestAcquire(c) ==
    /\ pc[c] = "idle"
    /\ ~lock
    /\ lock' = TRUE
    /\ pc' = [pc EXCEPT ![c] = "g145"]
    /\ UNCHANGED <<buffer, flags, poll, jt, held, ghost>>

\* Mutant of GetLatestReturn: the latest sample is taken out of the buffer
\* (pop() in place of [-1]).
GetLatestReturn_Pops(c) ==
    /\ pc[c] = "g145"
    /\ metrics_history' = IF Len(metrics_history) = 0 THEN metrics_history
                          ELSE SubSeq(metrics_history, 1, Len(metrics_history) - 1)
    /\ lock' = FALSE
    /\ pc' = [pc EXCEPT ![c] = "idle"]
    /\ UNCHANGED <<config, appended, flags, poll, jt, held, ghost>>

\* lines 145-147: the read, the return and the release of the lock.  The
\* value handed back is LatestOf(metrics_history).
GetLatestReturn(c) ==
    /\ pc[c] = "g145"
    /\ lock' = FALSE
    /\ pc' = [pc EXCEPT ![c] = "idle"]
    /\ UNCHANGED <<buffer, flags, poll, jt, held, ghost>>

\* -------------------------------------------------------- get_history()
\* line 157: with self.lock
GetHistoryAcquire(c) ==
    /\ pc[c] = "idle"
    /\ ~lock
    /\ lock' = TRUE
    /\ pc' = [pc EXCEPT ![c] = "h158"]
    /\ UNCHANGED <<buffer, flags, poll, jt, held, ghost>>

\* Mutant of GetHistoryReturn: the call returns with the lock held.
GetHistoryReturn_KeepLock(c) ==
    /\ pc[c] = "h158"
    /\ held' = HistoryOf(metrics_history)
    /\ pc' = [pc EXCEPT ![c] = "idle"]
    /\ UNCHANGED <<buffer, flags, lock, poll, jt, ghost>>

\* line 158: the copy, the return and the release of the lock
GetHistoryReturn(c) ==
    /\ pc[c] = "h158"
    /\ held' = HistoryOf(metrics_history)
    /\ lock' = FALSE
    /\ pc' = [pc EXCEPT ![c] = "idle"]
    /\ UNCHANGED <<buffer, flags, poll, jt, ghost>>

\* ---------------------------------------------------------- _poll_loop
\* line 98: while self.running
PollCheck(t) ==
    /\ tstate[t] = "check"
    /\ tstate' = [tstate EXCEPT ![t] = IF running THEN "collect" ELSE "done"]
    /\ UNCHANGED <<buffer, flags, lock, metrics, clock, pc, jt, held, ghost>>

\* line 99: metrics = self._collect_metrics(), psutil handing back `os`
PollCollectOs(t, os) ==
    /\ tstate[t] = "collect"
    /\ clock < MaxTicks
    /\ metrics' = [metrics EXCEPT ![t] = <<_collect_metrics(clock + 1, os)>>]
    /\ clock' = clock + 1
    /\ tstate' = [tstate EXCEPT ![t] = "acquire"]
    /\ UNCHANGED <<buffer, flags, lock, pc, jt, held, ghost>>

\* line 99 on a platform that has both counter families
PollCollect(t) == PollCollectOs(t, PlatformReading)

\* line 99 where a counter family may be missing in any tick
PollCollectAny(t) == \E os \in OsReadings : PollCollectOs(t, os)

\* line 99, a psutil call raising: nothing in _poll_loop catches it, and
\* the exception ends the thread.
PollCollectRaise(t) ==
    /\ tstate[t] = "collect"
    /\ tstate' = [tstate EXCEPT ![t] = "crashed"]
    /\ UNCHANGED <<buffer, flags, lock, metrics, clock, pc, jt, held, ghost>>

\* Mutant of PollAcquire: the append is entered without taking the lock.
PollAcquire_NoLock(t) ==
    /\ tstate[t] = "acquire"
    /\ tstate' = [tstate EXCEPT ![t] = "append"]
    /\ UNCHANGED <<buffer, flags, lock, metrics, clock, pc, jt, held, ghost>>

\* line 100: with self.lock
PollAcquire(t) ==
    /\ tstate[t] = "acquire"
    /\ ~lock
    /\ lock' = TRUE
    /\ tstate' = [tstate EXCEPT ![t] = "append"]
    /\ UNCHANGED <<buffer, flags, metrics, clock, pc, jt, held, ghost>>

\* Mutant of PollAppend: the lock is not released after the append.
PollAppend_KeepLock(t) ==
    /\ tstate[t] = "append"
    /\ metrics_history' = DequeAppend(metrics_history, metrics[t][1], history_size)
    /\ appended' = Append(appended, metrics[t][1])
    /\ tstate' = [tstate EXCEPT ![t] = "sleep"]
    /\ metrics' = [metrics EXCEPT ![t] = <<>>]
    /\ UNCHANGED <<config, flags, lock, clock, pc, jt, held, ghost>>

\* line 101: self.metrics_history.append(metrics), and the release.  (The
\* local `metrics` is not read again before line 99 rebinds it: it is
\* dropped here.)
PollAppend(t) ==
    /\ tstate[t] = "append"
    /\ metrics_history' = DequeAppend(metrics_history, metrics[t][1], history_size)
    /\ appended' = Append(appended, metrics[t][1])
    /\ lock' = FALSE
    /\ tstate' = [tstate EXCEPT ![t] = "sleep"]
    /\ metrics' = [metrics EXCEPT ![t] = <<>>]
    /\ UNCHANGED <<config, flags, clock, pc, jt, held, ghost>>

\* line 102: time.sleep(self.poll_interval)
PollSleep(t) ==
    /\ tstate[t] = "sleep"
    /\ tstate' = [tstate EXCEPT ![t] = "check"]
    /\ UNCHANGED <<buffer, flags, lock, metrics, clock, pc, jt, held, ghost>>

\* ---------------------------------------------------------------- Next
PollStep ==
    \E t \in Threads :
        \/ PollCheck(t)
        \/ PollCollect(t)
        \/ PollCollectRaise(t)
        \/ PollAcquire(t)
        \/ PollAppend(t)
        \/ PollSleep(t)

Lifecycle(c) ==
    \/ StartCheck(c)
    \/ StartSetRunning(c)
    \/ StartNewThread(c)
    \/ StartThreadStart(c)
    \/ StopClearRunning(c)
    \/ StopJoin(c)
    \/ JoinReturn(c)

Reads(c) ==
    \/ GetLatestAcquire(c)
    \/ GetLatestReturn(c)
    \/ GetHistoryAcquire(c)
    \/ GetHistoryReturn(c)

\* Any caller thread may call any method at any time.
Next ==
    \/ \E c \in Callers : Lifecycle(c)
    \/ \E c \in Callers : Reads(c)
    \/ PollStep

Spec == Init /\ [][Next]_vars

\* One caller owns start() and stop() and calls them one after another;
\* the other callers only read.
NextOwner ==
    \/ Lifecycle(Owner)
    \/ \E c \in Callers : Reads(c)
    \/ PollStep

SpecOwner == Init /\ [][NextOwner]_vars

\* The same with a platform whose counter families come and go: every
\* tick reads any of OsReadings.
PollStepAny ==
    \E t \in Threads :
        \/ PollCheck(t)
        \/ PollCollectAny(t)
        \/ PollCollectRaise(t)
        \/ PollAcquire(t)
        \/ PollAppend(t)
        \/ PollSleep(t)

NextSampler ==
    \/ Lifecycle(Owner)
    \/ \E c \in Callers : Reads(c)
    \/ PollStepAny

SpecSampler == Init /\ [][NextSampler]_vars

\* ------------------------------------------------ the service process
\* app.py run as a program ("main": python app.py) or imported by an
\* external WSGI server that calls create_app ("server").  The main thread
\* is Owner; the other callers are request handlers.
ServiceModes == {"main", "server"}
Handlers == Callers \ {Owner}

InitService ==
    /\ InitMonitor
    /\ svc \in [mode : ServiceModes, at : {"boot"}, apps : {0}]
    /\ logmon = NoLogMonitor
    /\ tok = NoTokenizer
    /\ fn_in = NoCall
    /\ fn_out = NoCall

\* The process ends: its daemon threads end with it.
AtExit == [t \in Threads |-> IF Alive(t) THEN "killed" ELSE tstate[t]]

\* create_app is entered (line 131, or the server's call of the factory).
ServiceCreateApp ==
    /\ svc.at = "boot"
    /\ svc' = [svc EXCEPT !.at = "create_app"]
    /\ UNCHANGED <<monitor, logmon, tok, fn_in, fn_out>>

\* app.py line 65: system_monitor.start()
ServiceStart ==
    \/ svc.at = "create_app" /\ StartCheck(Owner)
    \/ svc.at = "create_app" /\ StartSetRunning(Owner)
    \/ svc.at = "create_app" /\ StartNewThread(Owner)
    \/ svc.at = "create_app" /\ StartThreadStart(Owner)

\* start() has returned, create_app returns the app, requests are served
\* (app.run, line 134, or the external server's loop).
ServiceServe ==
    /\ svc.at = "create_app"
    /\ pc[Owner] = "idle"
    /\ running
    /\ svc' = [svc EXCEPT !.at = "serving", !.apps = @ + 1]
    /\ UNCHANGED <<monitor, logmon, tok, fn_in, fn_out>>

\* create_app is called once more in the running process (another app of
\* the same factory): lines 54-65 run again, on the same module-level
\* system_monitor.
ServiceCreateAppAgain ==
    /\ svc.at = "serving"
    /\ svc.apps < MaxApps
    /\ pc[Owner] = "idle"
    /\ svc' = [svc EXCEPT !.at = "create_app"]
    /\ UNCHANGED <<monitor, logmon, tok, fn_in, fn_out>>

\* A request to /api/metrics/current reads the sampler.
ServiceRequest(c) ==
    \/ svc.at = "serving" /\ GetLatestAcquire(c)
    \/ svc.at # "exited" /\ GetLatestReturn(c)
    \/ svc.at = "serving" /\ GetHistoryAcquire(c)
    \/ svc.at # "exited" /\ GetHistoryReturn(c)

\* lines 133-135: app.run returns or raises, the finally clause is entered.
ServiceRunEnds ==
    /\ svc.mode = "main"
    /\ svc.at = "serving"
    /\ svc' = [svc EXCEPT !.at = "finally"]
    /\ UNCHANGED <<monitor, logmon, tok, fn_in, fn_out>>

\* line 137: system_monitor.stop()
ServiceStop ==
    \/ svc.at = "finally" /\ phase # "stopped" /\ StopClearRunning(Owner)
    \/ svc.at = "finally" /\ StopJoin(Owner)
    \/ svc.at = "finally" /\ JoinReturn(Owner)

\* stop() has returned: the program ends.
ServiceMainExit ==
    /\ svc.at = "finally"
    /\ pc[Owner] = "idle"
    /\ phase = "stopped"
    /\ svc' = [svc EXCEPT !.at = "exited"]
    /\ tstate' = AtExit
    /\ UNCHANGED <<history_size, metrics_history, appended, flags, lock,
                   metrics, clock, pc, jt, held, ghost, logmon, tok, fn_in, fn_out>>

\* The external server shuts its worker down: nothing of app.py runs.
ServiceWorkerExit ==
    /\ svc.mode = "server"
    /\ svc.at = "serving"
    /\ svc' = [svc EXCEPT !.at = "exited"]
    /\ tstate' = AtExit
    /\ UNCHANGED <<history_size, metrics_history, appended, flags, lock,
                   metrics, clock, pc, jt, held, ghost, logmon, tok, fn_in, fn_out>>

NextService ==
    \/ ServiceCreateApp
    \/ ServiceStart
    \/ ServiceServe
    \/ ServiceCreateAppAgain
    \/ \E c \in Handlers : ServiceRequest(c)
    \/ ServiceRunEnds
    \/ ServiceStop
    \/ ServiceMainExit
    \/ ServiceWorkerExit
    \/ PollStep

SpecService == InitService /\ [][NextService]_vars

\* -------------------------------------------------------- LogMonitor
\* Paths are strings, kept as sequences of characters so that endswith
\* and dirname work on them as they do in Python.
DirA == <<"/", "a">>
DirB == <<"/", "b">>
DirC == <<"/", "c">>
FileAX == <<"/", "a", "/", "x">>
FileAYX == <<"/", "a", "/", "y", "x">>
FileBX == <<"/", "b", "/", "x">>
FileCX == <<"/", "c", "/", "x">>
RelX == <<"x">>
\* The working directory of the process.
Cwd == DirA
DirPaths == {DirA, DirB, DirC}
FilePaths == {FileAX, FileAYX, FileBX, FileCX}
\* What log_paths may name: absolute paths and one relative path.
Targets == {FileAX, FileBX, FileCX, RelX}

\* str.endswith
endswith(str, suffix) ==
    /\ Len(suffix) <= Len(str)
    /\ SubSeq(str, Len(str) - Len(suffix) + 1, Len(str)) = suffix

\* os.path.abspath, for paths without "." and ".." in them
os_path_abspath(path) ==
    IF path[1] = "/" THEN path ELSE Cwd \o <<"/">> \o path

\* os.path.dirname of an absolute path: what stands before its last "/"
os_path_dirname(path) ==
    LET i == CHOOSE j \in 1..Len(path) :
                 path[j] = "/" /\ \A k \in (j + 1)..Len(path) : path[k] # "/"
    IN  IF i = 1 THEN <<"/">> ELSE SubSeq(path, 1, i - 1)

\* os.path.exists on the files and directories of fs
os_path_exists(path, fs) == os_path_abspath(path) \in fs

\* The file systems: any directories, any files in directories that exist.
Filesystems ==
    {fs \in SUBSET (DirPaths \cup FilePaths) :
        \A f \in fs \cap FilePaths : os_path_dirname(f) \in fs}

LogPathLists == UNION {[1..n -> Targets] : n \in 0..MaxLogPaths}

\* LogMonitor.start, lines 206-211: the set paths_to_watch
paths_to_watch(log_paths, fs) ==
    {os_path_dirname(os_path_abspath(log_paths[i])) :
        i \in {j \in 1..Len(log_paths) : os_path_exists(log_paths[j], fs)}}

\* lines 215-216: one schedule call for each element of the set
Schedule(dirs) == {[path |-> d, recursive |-> FALSE, n |-> 1] : d \in dirs}

\* LogMonitor._on_log_change: how many times its action runs
_on_log_change(file_path, log_paths) ==
    IF \E i \in 1..Len(log_paths) : endswith(file_path, log_paths[i])
    THEN 1 ELSE 0

\* Mutant of on_modified: directory events are forwarded too.
on_modified_AnyKind(event, log_paths) ==
    _on_log_change(event.src_path, log_paths)

\* LogFileEventHandler.on_modified with the LogMonitor's callback
on_modified(event, log_paths) ==
    IF ~event.is_directory
    THEN _on_log_change(event.src_path, log_paths)
    ELSE 0

\* The modification events watchdog delivers for a set of non-recursive
\* watches: for a watched directory and for what is directly in it,
\* whatever kind of thing the path names by then.
EventsFor(watches) ==
    [src_path : {q \in DirPaths \cup FilePaths :
                    \E w \in watches : q = w.path \/ os_path_dirname(q) = w.path},
     is_directory : BOOLEAN]

\* LogMonitor.__init__ over any file system
InitLogMonitor ==
    /\ InitMonitor
    /\ history_size = 0
    /\ svc = NoService
    /\ fn_in = NoCall
    /\ fn_out = NoCall
    /\ tok = NoTokenizer
    /\ logmon \in [state : {"new"}, log_paths : LogPathLists, fs : Filesystems,
                    watches : {{}}, event : {<<>>}, nevents : {0}, printed : {0}]

\* LogMonitor.start
LogStart ==
    /\ logmon.state = "new"
    /\ logmon' = [logmon EXCEPT
                    !.state = "watching",
                    !.watches = Schedule(paths_to_watch(logmon.log_paths, logmon.fs))]
    /\ UNCHANGED <<monitor, svc, tok, fn_in, fn_out>>

\* One modification event is delivered and handled.
LogEvent ==
    /\ logmon.state = "watching"
    /\ logmon.nevents < MaxEvents
    /\ \E e \in EventsFor(logmon.watches) :
          logmon' = [logmon EXCEPT
                       !.event = <<e>>,
                       !.nevents = @ + 1,
                       !.printed = @ + on_modified(e, logmon.log_paths)]
    /\ UNCHANGED <<monitor, svc, tok, fn_in, fn_out>>

\* LogMonitor.stop
LogStop ==
    /\ logmon.state = "watching"
    /\ logmon' = [logmon EXCEPT !.state = "stopped"]
    /\ UNCHANGED <<monitor, svc, tok, fn_in, fn_out>>

NextLogMonitor ==
    \/ LogStart
    \/ LogEvent
    \/ LogStop

SpecLogMonitor == InitLogMonitor /\ [][NextLogMonitor]_vars

\* ------------------------------------------ normalize_metrics on its own
\* The dicts normalize_metrics is applied to: a full sample with any of a
\* few values under each key, cut down to all keys, all keys but one, one
\* key or none; and None.
PercentValues == {0, 37, 100, 250}
ByteValues == {0, 1023}
FullMetrics ==
    [timestamp        : {3},
     cpu_percent      : PercentValues,
     memory_percent   : PercentValues,
     memory_used      : {4},
     disk_read_bytes  : ByteValues,
     disk_write_bytes : ByteValues,
     net_bytes_sent   : ByteValues,
     net_bytes_recv   : ByteValues]
KeySets ==
    {SampleFields, {}}
    \cup {SampleFields \ {k} : k \in SampleFields}
    \cup {{k} : k \in SampleFields}
Restrict(f, K) == [k \in K |-> f[k]]
NormalizeInputs ==
    {<<>>} \cup {<<Restrict(f, K)>> : f \in FullMetrics, K \in KeySets}

InitNormalize ==
    /\ InitMonitor
    /\ history_size = 0
    /\ svc = NoService
    /\ logmon = NoLogMonitor
    /\ tok = NoTokenizer
    /\ fn_in \in NormalizeInputs
    /\ fn_out = NoCall

NormalizeCall ==
    /\ fn_out = NoCall
    /\ fn_out' = <<normalize_metrics(fn_in)>>
    /\ UNCHANGED <<monitor, svc, logmon, tok, fn_in>>

NextNormalize == NormalizeCall

SpecNormalize == InitNormalize /\ [][NextNormalize]_vars

\* ------------------------------------------------- a DataScaler in use
\* One DataScaler (self.ranges) and two dicts its callers own; any of the
\* two is passed to normalize_metrics, again and again.  fn_out lists the
\* calls made: which dict was passed and what came back.
Ranges == [cpu_percent |-> <<0, 100>>, memory_percent |-> <<0, 100>>]
ScalerInputs ==
    {<<>>} \cup {<<Restrict(f, K)>> :
                    f \in {g \in FullMetrics :
                              /\ g.memory_percent = 37
                              /\ g.disk_read_bytes = g.disk_write_bytes
                              /\ g.net_bytes_sent = g.disk_read_bytes
                              /\ g.net_bytes_recv = g.disk_read_bytes},
                    K \in {SampleFields, {"cpu_percent", "disk_read_bytes"}}}

InitScaler ==
    /\ InitMonitor
    /\ history_size = 0
    /\ svc = NoService
    /\ logmon = NoLogMonitor
    /\ tok = NoTokenizer
    /\ fn_in \in [self : {Ranges}, args : [1..2 -> ScalerInputs]]
    /\ fn_out = NoCall

\* Mutant of ScalerCall: the normalized values are written into the dict
\* that was passed in.
ScalerCall_InPlace(i) ==
    /\ Len(fn_out) < MaxCalls
    /\ LET out == normalize_metrics(fn_in.args[i])
       IN  /\ fn_out' = Append(fn_out, [arg |-> i, out |-> out])
           /\ fn_in' = [fn_in EXCEPT !.args[i] = <<out>>]
    /\ UNCHANGED <<monitor, svc, logmon, tok>>

\* data_scaler.normalize_metrics(args[i]): the method assigns to its
\* local dict `normalized` only, not to `metrics` and not to self.
ScalerCall(i) ==
    /\ Len(fn_out) < MaxCalls
    /\ fn_out' = Append(fn_out, [arg |-> i, out |-> normalize_metrics(fn_in.args[i])])
    /\ UNCHANGED <<monitor, svc, logmon, tok, fn_in>>

NextScaler == \E i \in 1..2 : ScalerCall(i)

SpecScaler == InitScaler /\ [][NextScaler]_vars

\* ------------------------------------------------ a LogTokenizer in use
\* A log line is a sequence of pieces: whitespace, or a piece of text
\* without whitespace.  Adjacent text pieces run together into one word, so
\* <<"a", "a">> is the line "aa" and <<"a", " ", "<PAD>">> is "a <PAD>".
\* A token (a str) is the sequence of its pieces.  The two reserved names
\* occur in a line as whole words only: glued to other text they would be
\* one more unknown word, as "aa" is.
Whitespace == {" "}
Reserved == {"<PAD>", "<UNK>"}
Pieces == Whitespace \cup {"a"} \cup Reserved
LogLines ==
    {l \in UNION {[1..n -> Pieces] : n \in 0..MaxLineLen} :
        \A i \in 1..Len(l) :
            l[i] \in Reserved =>
                /\ i = 1 \/ l[i - 1] \in Whitespace
                /\ i = Len(l) \/ l[i + 1] \in Whitespace}
PAD == <<"<PAD>">>
UNK == <<"<UNK>">>

\* str.strip(): leading and trailing whitespace removed.
RECURSIVE lstrip(_)
lstrip(s) ==
    IF Len(s) > 0 /\ Head(s) \in Whitespace THEN lstrip(Tail(s)) ELSE s
RECURSIVE rstrip(_)
rstrip(s) ==
    IF Len(s) > 0 /\ s[Len(s)] \in Whitespace
    THEN rstrip(SubSeq(s, 1, Len(s) - 1))
    ELSE s
strip(s) == rstrip(lstrip(s))

\* str.split() without a separator: the line is scanned left to right,
\* `word` collects the pieces since the last whitespace, and a whitespace
\* (or the end) closes a non-empty word.
RECURSIVE split_scan(_, _)
split_scan(s, word) ==
    LET closed == IF Len(word) = 0 THEN <<>> ELSE <<word>>
    IN  IF Len(s) = 0 THEN closed
        ELSE IF Head(s) \in Whitespace
             THEN closed \o split_scan(Tail(s), <<>>)
             ELSE split_scan(Tail(s), Append(word, Head(s)))
split(s) == split_scan(s, <<>>)

\* LogTokenizer(vocab_size).
LogTokenizer(vocab_size) ==
    [vocab_size |-> vocab_size,
     token_map |-> (PAD :> 0) @@ (UNK :> 1),
     next_token_id |-> 2]

\* dict.get(key, default).
dict_get(d, key, default) == IF key \in DOMAIN d THEN d[key] ELSE default

\* Mutant of tokenize_token: a new token is added whether or not there is
\* room in the vocabulary.
tokenize_token_NoLimit(self, token) ==
    LET self1 == IF token \notin DOMAIN self.token_map
                 THEN [self EXCEPT
                          !.token_map = @ @@ (token :> self.next_token_id),
                          !.next_token_id = @ + 1]
                 ELSE self
    IN  [self |-> self1, id |-> dict_get(self1.token_map, token, 1)]

\* Mutant of tokenize_token: next_token_id is not advanced after a token
\* has been added.
tokenize_token_NoIncrement(self, token) ==
    LET new == token \notin DOMAIN self.token_map
        room == self.next_token_id < self.vocab_size
        self1 == IF new /\ room
                 THEN [self EXCEPT
                          !.token_map = @ @@ (token :> self.next_token_id)]
                 ELSE self
        token1 == IF new /\ ~room THEN UNK ELSE token
    IN  [self |-> self1, id |-> dict_get(self1.token_map, token1, 1)]

\* One pass of the for loop of tokenize_log: the tokenizer after it and
\* the ID appended to token_ids.
tokenize_token(self, token) ==
    LET new == token \notin DOMAIN self.token_map
        room == self.next_token_id < self.vocab_size
        self1 == IF new /\ room
                 THEN [self EXCEPT
                          !.token_map = @ @@ (token :> self.next_token_id),
                          !.next_token_id = @ + 1]
                 ELSE self
        token1 == IF new /\ ~room THEN UNK ELSE token
    IN  [self |-> self1, id |-> dict_get(self1.token_map, token1, 1)]

\* The for loop of tokenize_log over the tokens left.
RECURSIVE tokenize_loop(_, _, _)
tokenize_loop(self, tokens, token_ids) ==
    IF Len(tokens) = 0
    THEN [self |-> self, token_ids |-> token_ids]
    ELSE LET r == tokenize_token(self, Head(tokens))
         IN  tokenize_loop(r.self, Tail(tokens), Append(token_ids, r.id))

\* tokenize_log(log_line): the tokenizer afterwards and the list returned.
tokenize_log(self, log_line) ==
    tokenize_loop(self, split(strip(log_line)), <<>>)

\* One LogTokenizer of any vocab_size; fn_in holds the line of the latest
\* call and fn_out the list that call returned.
InitTokenizer ==
    /\ InitMonitor
    /\ history_size = 0
    /\ svc = NoService
    /\ logmon = NoLogMonitor
    /\ tok \in {LogTokenizer(v) : v \in 0..MaxVocab}
    /\ fn_in = NoCall
    /\ fn_out = NoCall

\* log_tokenizer.tokenize_log(log_line), from call to return.  Nothing in
\* the repository calls it from more than one thread.
TokenizeCall(log_line) ==
    /\ LET r == tokenize_log(tok, log_line)
       IN  /\ tok' = r.self
           /\ fn_in' = <<log_line>>
           /\ fn_out' = <<r.token_ids>>
    /\ UNCHANGED <<monitor, svc, logmon>>

NextTokenizer == \E log_line \in LogLines : TokenizeCall(log_line)

SpecTokenizer == InitTokenizer /\ [][NextTokenizer]_vars

\* ------------------------------------------- _collect_metrics on its own
\* One call of _collect_metrics at any time with any reading.
CollectInputs == [now : 0..MaxTicks, os : CounterReadings]

InitCollect ==
    /\ InitMonitor
    /\ history_size = 0
    /\ svc = NoService
    /\ logmon = NoLogMonitor
    /\ tok = NoTokenizer
    /\ fn_in \in CollectInputs
    /\ fn_out = NoCall

CollectCall ==
    /\ fn_out = NoCall
    /\ fn_out' = <<_collect_metrics(fn_in.now, fn_in.os)>>
    /\ UNCHANGED <<monitor, svc, logmon, tok, fn_in>>

NextCollect == CollectCall

SpecCollect == InitCollect /\ [][NextCollect]_vars

\* The scheduler lets every started polling thread take its next step, and
\* every caller that is inside a call take the call's next step.
InCall(c) ==
    \/ StartSetRunning(c)
    \/ StartNewThread(c)
    \/ StartThreadStart(c)
    \/ StopJoin(c)
    \/ JoinReturn(c)
    \/ GetLatestReturn(c)
    \/ GetHistoryReturn(c)

PollOf(t) ==
    \/ PollCheck(t)
    \/ PollCollect(t)
    \/ PollCollectRaise(t)
    \/ PollAcquire(t)
    \/ PollAppend(t)
    \/ PollSleep(t)

SpecFair ==
    /\ Spec
    /\ \A t \in Threads : WF_vars(PollOf(t))
    /\ \A c \in Callers : WF_vars(InCall(c))

\* One caller of start() and stop(), under a scheduler that lets every
\* thread take its next step and that hands the lock, which is free again
\* and again, to a polling thread that waits for it.
SpecOwnerFair ==
    /\ SpecOwner
    /\ \A t \in Threads : WF_vars(PollOf(t))
    /\ \A t \in Threads : SF_vars(PollAcquire(t))
    /\ \A c \in Callers : WF_vars(InCall(c))

\* ====================================================================
\* Properties
\* ====================================================================
Min(a, b) == IF a <= b THEN a ELSE b
\* The last n elements of s (n <= Len(s)).
LastN(s, n) == SubSeq(s, Len(s) - n + 1, Len(s))
AliveThreads == {t \in Threads : Alive(t)}
\* The step in which polling thread t completes an append.
AppendStep(t) == tstate[t] = "append" /\ tstate'[t] = "sleep"
\* The sampler is Stopped: never started, or a stop() call that no start()
\* call overlapped has returned and no start() call has got in since.
Stopped == phase \in {"fresh", "stopped"}
\* The input of a normalize_metrics call that has returned is not empty.
NormalizedNonEmpty ==
    /\ fn_out # NoCall
    /\ fn_in # <<>>
    /\ DOMAIN fn_in[1] # {}
\* The keys of the dict normalize_metrics builds.
NormalizedFields == {"cpu_percent", "memory_percent", "disk_read_bytes",
                     "disk_write_bytes", "net_bytes_recv", "net_bytes_sent",
                     "timestamp"}
\* d.get(k, 0)
GetOr0(d, k) == IF k \in DOMAIN d THEN d[k] ELSE 0
\* Fractions and logarithms as numbers.
FracEq(r, a, b) == r.num * b = a * r.den
FracGt1(r) == r.num > r.den
LnFinite(r) == r.ln > 0
LnNonNeg(r) == r.ln >= 1
LnZero(r) == r.ln = 1
\* The step in which polling thread t leaves line 99.
CollectStep(t) == tstate[t] = "collect" /\ tstate'[t] # "collect"

C2_NoAppendAfterStop ==
    [][phase = "stopped" => \A t \in Threads : ~AppendStep(t)]_vars

\* C3: under any interleaving of start() and stop() calls by any number of
\* caller threads, at most one polling thread is active.
C3_OnePollingCycle == Cardinality(AliveThreads) <= 1

\* C4: with start() and stop() called one after another by a single caller
\* (SpecOwner), at most one polling thread is alive at any time; start() on
\* a Running sampler spawns no thread and changes nothing; after each
\* stop() returns no polling thread is alive.
C4_SequentialLifecycle ==
    /\ [](Cardinality(AliveThreads) <= 1)
    /\ [](phase = "stopped" => AliveThreads = {})
    /\ [][(running /\ pc[Owner] = "idle")
            => /\ pc'[Owner] # "s77"
               /\ thread' = thread
               /\ running' \/ pc'[Owner] = "p88"
               /\ \A t \in Threads : tstate[t] = "unborn" => tstate'[t] = "unborn"]_vars

\* C4 witness: after start(), stop(), start() the second polling thread is
\* alive, the first has ended, and the caller is free to call start() again.
C4_Witness ==
    /\ tstate[1] = "done"
    /\ Alive(2)
    /\ running
    /\ pc[Owner] = "idle"

\* C5: a stop() call on a Running sampler eventually returns, and at the
\* moment it returns the polling threads that were active when it was
\* called have exited (a thread alive at the return of a stop() call that
\* no start() call overlapped was alive when stop() was called).
C5_StopJoins ==
    /\ \A c \in Callers : (pc[c] \in {"p88", "join"}) ~> (pc[c] = "idle")
    /\ [](phase = "stopped" => AliveThreads = {})

\* C6: stop() on a Stopped sampler is a no-op.  Its assignment finds
\* self.running False already; its join() finds no Thread object, or one
\* that has ended (it neither waits nor raises); and no step of stop()
\* touches the buffer or creates a thread.
C6_StopWhenStopped ==
    /\ [](Stopped =>
            /\ ~running
            /\ thread # NoThread => tstate[thread] \in {"done", "crashed"})
    /\ [][\A c \in Callers :
            (Stopped /\ pc[c] = "p88" /\ pc'[c] # "p88")
            => \/ pc'[c] = "idle"
               \/ pc'[c] = "join" /\ ~Alive(jt'[c])]_vars
    /\ [][\A c \in Callers :
            (pc[c] \in {"p88", "join"} \/ pc'[c] = "p88") /\ pc'[c] # pc[c]
            => UNCHANGED <<buffer, thread, tstate, lock>>]_vars

\* C6 witness: a stop() call made after an earlier stop() had returned is
\* at its join(), on a thread that has ended.
C6_Witness ==
    \E c \in Callers :
        /\ pc[c] = "join"
        /\ c \in clean
        /\ phase = "stopped"
        /\ \A d \in Callers \ {c} : pc[d] = "idle"
        /\ Len(appended) > 0

\* C7: get_latest_metrics() returns None exactly when the buffer is empty
\* (so always before the first append), and otherwise the sample appended
\* most recently.
C7_Latest ==
    \A c \in Callers :
        pc[c] = "g145" =>
            LET r == LatestOf(metrics_history)
            IN /\ (r = <<>>) <=> (metrics_history = <<>>)
               /\ appended = <<>> => r = <<>>
               /\ r # <<>> => r = <<appended[Len(appended)]>>

\* C7 witness: a get_latest_metrics() call holds the lock on a buffer of
\* two samples.
C7_Witness ==
    \E c \in Callers : pc[c] = "g145" /\ Len(metrics_history) = 2

\* C8: what get_history() returns is the run of the last
\* min(completed appends, capacity) samples of the sequence of completed
\* appends, in append order, and holds no sample still in a polling
\* thread's hands.
C8_HistoryLinearizable ==
    [][\A c \in Callers :
        (pc[c] = "h158" /\ pc'[c] = "idle")
        => /\ held'.val = LastN(appended, Min(Len(appended), history_size))
           /\ \A t \in Threads : \A i \in 1..Len(held'.val) :
                 metrics[t] # <<>> => held'.val[i] # metrics[t][1]]_vars

\* C8 witness: a get_history() call holds the lock on a buffer of two
\* samples.
C8_Witness ==
    \E c \in Callers :
        /\ pc[c] = "h158"
        /\ Len(metrics_history) = 2
        /\ \E t \in Threads : Alive(t)

\* C9: at most one thread is inside a lock-protected section (the polling
\* thread's append, get_latest_metrics(), get_history()).
C9_MutualExclusion ==
    Cardinality({c \in Callers : pc[c] \in {"g145", "h158"}})
        + Cardinality({t \in Threads : tstate[t] = "append"}) <= 1

\* C9 witness: a caller is inside its section while a polling thread waits
\* for the lock with its sample.
C9_Witness ==
    /\ \E c \in Callers : pc[c] \in {"g145", "h158"}
    /\ \E t \in Threads : tstate[t] = "acquire"

\* C10: the sequence get_history() returned keeps its length and elements
\* whatever the sampler appends or evicts afterwards.
C10_HistoryIsCopy ==
    [][(held.kind # "none" /\ held' = held) => Deref(held)' = Deref(held)]_vars

\* C10 witness: the buffer has moved on since the held sequence was returned.
C10_Witness ==
    /\ held.kind = "list"
    /\ Len(held.val) > 0
    /\ held.val # metrics_history


\* C11: a tick in which reading a counter family fails does not end the
\* polling cycle: line 99 still hands a sample to the append, and the
\* thread goes on to later ticks.
C11_FailedReadStillSamples ==
    [][\A t \in Threads :
          CollectStep(t) => /\ tstate'[t] = "acquire"
                            /\ Len(metrics'[t]) = 1]_vars

\* C12: zero is substituted per counter family.  With the disk counters
\* missing the two disk fields are 0 and cpu, memory and network carry
\* what was read; with the network counters missing the two network
\* fields are 0 and cpu, memory and disk carry what was read.
C12_ZeroPerFamily ==
    fn_out # NoCall =>
        LET m == fn_out[1]
            os == fn_in.os
        IN  /\ m.cpu_percent = Psutil.cpu_percent
            /\ m.memory_percent = Psutil.percent
            /\ m.memory_used = Psutil.used
            /\ IF os.disk_io.ok
               THEN /\ m.disk_read_bytes = os.disk_io.read_bytes
                    /\ m.disk_write_bytes = os.disk_io.write_bytes
               ELSE /\ m.disk_read_bytes = 0
                    /\ m.disk_write_bytes = 0
            /\ IF os.net_io.ok
               THEN /\ m.net_bytes_sent = os.net_io.bytes_sent
                    /\ m.net_bytes_recv = os.net_io.bytes_recv
               ELSE /\ m.net_bytes_sent = 0
                    /\ m.net_bytes_recv = 0

\* A call made with the disk counters missing and the network counters
\* read: the disk fields are zero, the network fields are not.
C12_Witness ==
    /\ fn_out # NoCall
    /\ ~fn_in.os.disk_io.ok
    /\ fn_in.os.net_io.ok
    /\ fn_out[1].disk_read_bytes = 0
    /\ fn_out[1].net_bytes_sent > 0

\* C13: every sample in the buffer carries all eight fields, each with a
\* number in it, whatever counter families were missing in its tick.
C13_AllFieldsPresent ==
    \A i \in 1..Len(metrics_history) :
        /\ DOMAIN metrics_history[i] = SampleFields
        /\ \A k \in SampleFields : metrics_history[i][k] \in Nat

\* The buffer holds a sample of a tick that had neither counter family
\* next to a sample of a tick that had both.
C13_Witness ==
    /\ Len(metrics_history) = 2
    /\ metrics_history[1].disk_read_bytes = 0
    /\ metrics_history[1].net_bytes_sent = 0
    /\ metrics_history[2].disk_read_bytes > 0
    /\ metrics_history[2].net_bytes_sent > 0

\* C14 as stated: once a stop() has cleared the flag of a sampler that
\* was started, nothing sets the flag again.
C14_StoppedIsTerminal ==
    [][(~running /\ thread # NoThread) => ~running']_vars

\* C14, amended: with one caller of start() and stop(), the sampler is
\* Stopped at construction; between calls it is Running with its polling
\* thread started or Stopped with no polling thread alive; a start() that
\* goes past line 76 returns with it Running, a stop() returns with it
\* Stopped; and a start() after a stop() makes it Running again.
C14_StartStopCycle ==
    /\ [](/\ phase = "fresh" => ~running /\ thread = NoThread
          /\ pc[Owner] = "idle" =>
                IF running
                THEN /\ thread # NoThread
                     /\ tstate[thread] \notin {"unborn", "new", "done"}
                ELSE AliveThreads = {})
    /\ [][(pc[Owner] \in {"s77", "s78", "s79"} /\ pc'[Owner] = "idle")
            => running']_vars
    /\ [][(pc[Owner] \in {"p88", "join"} /\ pc'[Owner] = "idle")
            => ~running']_vars

\* The sampler has been started, stopped, started again and stopped
\* again: both of its polling threads ran and ended on their own test.
C14_Witness ==
    /\ tstate[1] = "done"
    /\ tstate[2] = "done"
    /\ Len(appended) > 0
    /\ phase = "stopped"
    /\ pc[Owner] = "idle"

\* C15: a sampler built with capacity 0 holds nothing in any state: the
\* value get_latest_metrics() returns is None, the list get_history()
\* returns is empty, and every append of the polling thread completes
\* and leads on to the next tick.
C15_ZeroCapacity ==
    /\ [](history_size = 0 =>
            /\ metrics_history = <<>>
            /\ \A c \in Callers :
                  /\ pc[c] = "g145" => LatestOf(metrics_history) = <<>>
                  /\ pc[c] = "h158" => HistoryOf(metrics_history).val = <<>>
            /\ Deref(held) = <<>>)
    /\ [][\A t \in Threads :
            (history_size = 0 /\ tstate[t] = "append" /\ tstate'[t] # "append")
                => /\ tstate'[t] = "sleep"
                   /\ Len(appended') = Len(appended) + 1
                   /\ metrics_history' = <<>>]_vars

\* Capacity 0, two ticks appended, and a reader inside each read.
C15_Witness ==
    /\ history_size = 0
    /\ Len(appended) >= 2
    /\ held.kind = "list"
    /\ \E c \in Callers : pc[c] = "g145"

\* C16: GET /api/metrics/current answers {} exactly when the sampler
\* holds no sample; otherwise it answers the latest sample as it is, or
\* normalize_metrics of the latest sample when normalized=true is given.
C16_CurrentMetrics ==
    \A c \in Callers : pc[c] = "g145" =>
        \A q \in QueryValues :
            LET resp == get_current_metrics(LatestOf(metrics_history), q)
                n == Len(appended)
            IN  /\ (DOMAIN resp = {}) <=> (metrics_history = <<>>)
                /\ metrics_history # <<>> =>
                      /\ q = "true" => resp = normalize_metrics(<<appended[n]>>)
                      /\ q \in {"", "false"} => resp = appended[n]
                      /\ \/ resp = normalize_metrics(<<appended[n]>>)
                         \/ resp = appended[n]

\* A request is answered while the buffer holds two samples, the latest
\* of a tick without network counters.
C16_Witness ==
    /\ \E c \in Callers : pc[c] = "g145"
    /\ Len(metrics_history) = 2
    /\ metrics_history[2].net_bytes_sent = 0
    /\ metrics_history[1].net_bytes_sent > 0

\* The field names of a MetricSample as the data model lists them.
ListedFieldNames == {"timestamp", "cpu_percent", "memory_percent",
                     "memory_used_bytes", "disk_read_bytes",
                     "disk_write_bytes", "net_bytes_sent", "net_bytes_recv"}

\* C17 as stated: the object answered for an existing sample has exactly
\* the listed field names, memory_used_bytes among them.
C17_ListedFieldNames ==
    \A c \in Callers : (pc[c] = "g145" /\ metrics_history # <<>>) =>
        DOMAIN get_current_metrics(LatestOf(metrics_history), "") = ListedFieldNames

\* C17, amended: the object answered for an existing sample, when no
\* normalization is asked for, has exactly the keys timestamp,
\* cpu_percent, memory_percent, memory_used, disk_read_bytes,
\* disk_write_bytes, net_bytes_sent and net_bytes_recv.
C17_FieldNames ==
    \A c \in Callers : (pc[c] = "g145" /\ metrics_history # <<>>) =>
        \A q \in {"", "false"} :
            LET resp == get_current_metrics(LatestOf(metrics_history), q)
            IN  /\ DOMAIN resp = SampleFields
                /\ "memory_used" \in DOMAIN resp
                /\ "memory_used_bytes" \notin DOMAIN resp

\* A request without a query string is answered from a buffer holding
\* one sample.
C17_Witness ==
    /\ \E c \in Callers : pc[c] = "g145"
    /\ Len(metrics_history) = 1
    /\ "memory_used" \in DOMAIN metrics_history[1]

\* C18: over the life of a service process start() is invoked at startup
\* and stop() at shutdown, on every path by which the process ends and
\* however the app was built, so that no polling cycle is active after.
C18_StopOnEveryPath ==
    /\ svc.at \in {"serving", "finally", "exited"} => phase # "fresh"
    /\ svc.at = "exited" => /\ phase = "stopped"
                            /\ AliveThreads = {}

\* C19: for a non-empty input the cpu_percent and memory_percent of the
\* output are the input values divided by 100, nothing clamped: a value
\* above 100 gives an output above 1, a value v of 0..100 gives v/100.
C19_PercentOver100 ==
    NormalizedNonEmpty =>
        \A k \in {"cpu_percent", "memory_percent"} :
            LET v == GetOr0(fn_in[1], k)
                r == fn_out[1][k]
            IN  /\ FracEq(r, v, 100)
                /\ v > 100 <=> FracGt1(r)

\* A call whose input has cpu_percent 250 and memory_percent 37.
C19_Witness ==
    /\ NormalizedNonEmpty
    /\ DOMAIN fn_in[1] = SampleFields
    /\ fn_in[1].cpu_percent = 250
    /\ fn_in[1].memory_percent = 37
    /\ FracGt1(fn_out[1].cpu_percent)

\* C20: for a non-empty input each of the four byte fields of the output
\* is ln(1 + input): 0 gives 0, 1023 gives ln(1024), and the output is
\* finite and not negative for every input that is not negative.
C20_Log1pBytes ==
    NormalizedNonEmpty =>
        \A k \in {"disk_read_bytes", "disk_write_bytes",
                  "net_bytes_sent", "net_bytes_recv"} :
            LET v == GetOr0(fn_in[1], k)
                r == fn_out[1][k]
            IN  /\ r.ln = 1 + v
                /\ v = 0 => LnZero(r)
                /\ v = 1023 => r.ln = 1024
                /\ v >= 0 => LnFinite(r) /\ LnNonNeg(r)

\* A call whose input has 0 disk bytes read and 1023 network bytes sent.
C20_Witness ==
    /\ NormalizedNonEmpty
    /\ DOMAIN fn_in[1] = SampleFields
    /\ fn_in[1].disk_read_bytes = 0
    /\ fn_in[1].net_bytes_sent = 1023
    /\ LnZero(fn_out[1].disk_read_bytes)

\* C21: normalize_metrics applied to None or to an empty mapping returns
\* an empty mapping.
C21_EmptyInput ==
    (fn_out # NoCall /\ (fn_in = <<>> \/ DOMAIN fn_in[1] = {}))
        => DOMAIN fn_out[1] = {}

\* A call with None has returned.
C21_Witness ==
    /\ fn_in = <<>>
    /\ Len(fn_out) = 1
    /\ DOMAIN fn_out[1] = {}

\* C22: for a non-empty input the keys of the output are exactly the
\* seven normalized fields whatever keys the input has, and the output
\* timestamp is the input timestamp.
C22_OutputKeys ==
    NormalizedNonEmpty =>
        /\ DOMAIN fn_out[1] = NormalizedFields
        /\ "timestamp" \in DOMAIN fn_in[1]
              => fn_out[1].timestamp = fn_in[1].timestamp

\* A call whose input has all eight keys of a sample, memory_used among
\* them, has returned.
C22_Witness ==
    /\ NormalizedNonEmpty
    /\ DOMAIN fn_in[1] = SampleFields
    /\ fn_in[1].cpu_percent = 37
    /\ fn_out[1].timestamp = 3

\* C23: for a non-empty input that lacks some of the seven fields, each
\* missing field counts as 0: a missing percentage gives 0.0, a missing
\* byte counter gives 0.0, a missing timestamp gives 0, and no field of
\* the output is null.
C23_MissingFieldsAreZero ==
    NormalizedNonEmpty =>
        LET m == fn_in[1]
            out == fn_out[1]
        IN  /\ \A k \in {"cpu_percent", "memory_percent"} \ DOMAIN m :
                  FracEq(out[k], 0, 1)
            /\ \A k \in {"disk_read_bytes", "disk_write_bytes",
                          "net_bytes_recv", "net_bytes_sent"} \ DOMAIN m :
                  LnZero(out[k])
            /\ "timestamp" \notin DOMAIN m => out.timestamp = 0
            /\ out.timestamp # PyNone

\* C24: start() begins exactly one non-recursive watch for each distinct
\* parent directory of a target whose parent directory exists, whether
\* the target file exists or not, and no watch for any other directory.
C24_WatchExistingParents ==
    logmon.state \in {"watching", "stopped"} =>
        LET parents == {os_path_dirname(os_path_abspath(logmon.log_paths[i])) :
                           i \in 1..Len(logmon.log_paths)}
        IN  logmon.watches =
                {[path |-> d, recursive |-> FALSE, n |-> 1] :
                    d \in parents \cap logmon.fs}

\* C25: for each modification event delivered, the change handler runs
\* its action once if the event is not a directory event and its path
\* ends with one of the target paths, and not at all otherwise.
C25_OncePerMatchingEvent ==
    [][logmon.state = "watching" /\ logmon'.nevents = logmon.nevents + 1 =>
          LET e == logmon'.event[1]
              hit == /\ ~e.is_directory
                     /\ \E i \in 1..Len(logmon.log_paths) :
                           endswith(e.src_path, logmon.log_paths[i])
          IN  logmon'.printed = logmon.printed + (IF hit THEN 1 ELSE 0)]_vars

\* Two events have been handled, the later one a file event whose path
\* ends with the relative target without being it, and the action has
\* run for one of the two only.
C25_Witness ==
    /\ logmon.state = "watching"
    /\ logmon.nevents = 2
    /\ logmon.printed = 1
    /\ logmon.event = <<[src_path |-> FileAYX, is_directory |-> FALSE]>>
    /\ \E i \in 1..Len(logmon.log_paths) : logmon.log_paths[i] = RelX

\* A stop() call of the owner is between its first statement and its
\* return.
InStop == pc[Owner] \in {"p88", "join"}
\* The step in which polling thread t passes the test of line 98 and
\* begins a sampling pass.
PassBegins(t) == tstate[t] = "check" /\ tstate'[t] = "collect"

\* C26: cancellation is cooperative.  During a stop() call no new pass
\* begins, so at most one append takes place before it returns; a pass
\* that had begun when stop() was called still yields its sample; and
\* that sample is in the buffer when stop() returns.
C26_CooperativeCancel ==
    /\ [][InStop => \A t \in Threads : ~PassBegins(t)]_vars
    /\ [][InStop => \A t \in Threads :
              CollectStep(t) => tstate'[t] = "acquire"]_vars
    /\ [][(InStop /\ pc'[Owner] = "idle") =>
              \A t \in Threads :
                  tstate'[t] \notin {"collect", "acquire", "append"}]_vars

\* C27: the lock is held exactly while a polling thread is at its append
\* or a caller is inside get_latest_metrics() or get_history(): not
\* while a polling thread collects or sleeps, and not by a caller that is
\* in start() or stop().
C27_LockScope ==
    lock <=> \/ \E t \in Threads : tstate[t] = "append"
             \/ \E c \in Callers : pc[c] \in {"g145", "h158"}

\* One polling thread sleeps and another collects while a caller waits
\* in stop(): nobody holds the lock.
C27_Witness ==
    /\ ~lock
    /\ \E t \in Threads : tstate[t] = "sleep"
    /\ \E t \in Threads : tstate[t] = "collect"
    /\ \E c \in Callers : pc[c] = "join"

C29_TimestampOrder ==
    \A c \in Callers : pc[c] = "h158" =>
        LET h == HistoryOf(metrics_history).val
        IN  \A i, j \in 1..Len(h) : i < j => h[i].timestamp <= h[j].timestamp

\* C30: a sampling pass begins only when every pass before it is over
\* together with the sleep that follows it: no other polling thread is in
\* a pass or in its sleep at that moment.
C30_SleepBetweenPasses ==
    [][\A t \in Threads : PassBegins(t) =>
          \A u \in Threads \ {t} :
              tstate[u] \notin {"collect", "acquire", "append", "sleep"}]_vars

\* C31: the buffer is empty at construction, and it changes only in the
\* append of a polling thread, which adds the new sample at the end and
\* drops at most the oldest one: no step of start() or stop() and no
\* other step removes a sample.
C31_BufferPersists ==
    /\ [](Len(appended) = 0 => metrics_history = <<>>)
    /\ [][metrics_history' # metrics_history =>
            /\ \E t \in Threads : AppendStep(t)
            /\ Len(metrics_history') > 0
            /\ LET kept == SubSeq(metrics_history', 1, Len(metrics_history') - 1)
               IN  kept = metrics_history \/ kept = Tail(metrics_history)]_vars
    /\ [][(\E c \in Callers : pc'[c] # pc[c]) =>
            metrics_history' = metrics_history]_vars

\* A get_history() call reads a buffer that holds a sample of the first
\* polling thread after that thread was stopped and a second one started.
C31_Witness ==
    /\ tstate[1] = "done"
    /\ Alive(2)
    /\ Len(appended) = 1
    /\ Len(metrics_history) = 1
    /\ tstate[2] \in {"check", "collect"}
    /\ \E c \in Callers : pc[c] = "h158"

WordStarts(line) ==
    {i \in 1..Len(line) :
        /\ line[i] \notin Whitespace
        /\ i = 1 \/ line[i - 1] \in Whitespace}
\* The word beginning at i: the pieces up to the next whitespace or the end.
WordAt(line, i) ==
    LET stops == {j \in i..Len(line) : line[j] \in Whitespace}
        last == IF stops = {} THEN Len(line)
                ELSE (CHOOSE j \in stops : \A k \in stops : j <= k) - 1
    IN  SubSeq(line, i, last)
\* The whitespace-delimited words of a line, in order.
WordsOf(line) ==
    LET starts == WordStarts(line)
    IN  [k \in 1..Cardinality(starts) |->
            WordAt(line, CHOOSE i \in starts :
                            Cardinality({j \in starts : j <= i}) = k)]
\* The vocabulary has no room for another token.
VocabularyFull(self) == Cardinality(DOMAIN self.token_map) >= self.vocab_size

\* C33: for a LogTokenizer with vocab_size V >= 2, after any calls the
\* vocabulary holds at most V entries, every returned ID is in 0..V-1 and
\* the returned list has one ID per whitespace-delimited word, in order:
\* the word's ID in the vocabulary, or 1 for a word that is not in it.  A
\* call adds tokens only while there is room: from a full vocabulary the
\* vocabulary comes out as it was and every unknown word is returned as 1.
C33_VocabularyBounded ==
    /\ [](tok.vocab_size >= 2 =>
            /\ Cardinality(DOMAIN tok.token_map) <= tok.vocab_size
            /\ fn_out # NoCall =>
                  LET words == WordsOf(fn_in[1])
                      ids == fn_out[1]
                  IN  /\ Len(ids) = Len(words)
                      /\ \A k \in 1..Len(ids) :
                            /\ ids[k] \in 0..(tok.vocab_size - 1)
                            /\ ids[k] = dict_get(tok.token_map, words[k], 1))
    /\ [][(tok.vocab_size >= 2 /\ VocabularyFull(tok)) =>
            /\ tok' = tok
            /\ LET words == WordsOf(fn_in'[1])
               IN  \A k \in 1..Len(words) :
                      words[k] \notin DOMAIN tok.token_map => fn_out'[1][k] = 1]_vars
\* A tokenizer of vocab_size 2 is full from the start: "a <PAD>" came back
\* as [1, 0] and "a" was not added.
C33_Witness ==
    /\ tok.vocab_size = 2
    /\ fn_in = << <<"a", " ", "<PAD>">> >>
    /\ fn_out = << <<1, 0>> >>
    /\ DOMAIN tok.token_map = {PAD, UNK}

\* C34: token IDs are stable and unique: a call keeps every token of the
\* vocabulary and its ID, and returns that ID for each word that is in the
\* vocabulary; no two tokens of the vocabulary share an ID; <PAD> has 0,
\* <UNK> has 1 and any other token has an ID of 2 or more.
C34_IdsStableUnique ==
    /\ [](LET m == tok.token_map
          IN  /\ \A v, w \in DOMAIN m : m[v] = m[w] => v = w
              /\ m[PAD] = 0
              /\ m[UNK] = 1
              /\ \A w \in DOMAIN m \ {PAD, UNK} : m[w] >= 2)
    /\ [][/\ \A w \in DOMAIN tok.token_map :
                /\ w \in DOMAIN tok'.token_map
                /\ tok'.token_map[w] = tok.token_map[w]
          /\ LET words == WordsOf(fn_in'[1])
             IN  \A k \in 1..Len(words) :
                    words[k] \in DOMAIN tok.token_map =>
                        fn_out'[1][k] = tok.token_map[words[k]]]_vars
\* "a" was given 2 and "aa" 3 by earlier calls; the latest call, on "a",
\* returned [2] again.
C34_Witness ==
    /\ tok.vocab_size = 4
    /\ DOMAIN tok.token_map = {PAD, UNK, <<"a">>, <<"a", "a">>}
    /\ tok.token_map[<<"a">>] = 2
    /\ tok.token_map[<<"a", "a">>] = 3
    /\ fn_in = << <<"a">> >>
    /\ fn_out = << <<2>> >>


\* C35: whenever no start() call is in progress and self.running is True,
\* a polling thread is alive.
C35_RunningMeansSampling ==
    (InStart = {} /\ running) => AliveThreads # {}


\* Caller c enters or leaves the locked section of get_latest_metrics()
\* or of get_history().
ReadStep(c) ==
    /\ pc'[c] # pc[c]
    /\ pc[c] \in {"g145", "h158"} \/ pc'[c] \in {"g145", "h158"}

\* C36: get_latest_metrics() and get_history() are read-only.  No step of
\* either call changes the buffer, self.running, self.thread or the state
\* of any polling thread, whatever the other threads are doing.
C36_ReadsAreReadOnly ==
    [][(\E c \in Callers : ReadStep(c)) =>
          /\ metrics_history' = metrics_history
          /\ appended' = appended
          /\ running' = running
          /\ thread' = thread
          /\ tstate' = tstate
          /\ history_size' = history_size]_vars
\* A get_history() call has returned the one sample of the buffer and a
\* get_latest_metrics() call is reading it, while the sampler is running
\* and its thread waits for the lock with the next sample.
C36_Witness ==
    /\ held.kind = "list"
    /\ Len(held.val) = 1
    /\ held.val = metrics_history
    /\ running
    /\ \E t \in Threads : tstate[t] = "acquire"
    /\ \E c \in Callers : pc[c] = "g145"


\* C37: after any number of create_app() calls in one process exactly one
\* polling thread is alive.
C37_OnePollingThread ==
    (svc.at = "serving" /\ svc.apps >= 1) => Cardinality(AliveThreads) = 1

=============================================================================
